---- MODULE Spec2Model ----
(***************************************************************************)
(* Model of the llamactl instance supervisor, server/pkg/instance.go:      *)
(* one Instance owns a llama-server child process, its log file, a cached  *)
(* reverse proxy and a crash-restart policy.  Every section of the code    *)
(* that runs under Instance.mu is one action; the goroutines started by    *)
(* Start (monitorProcess, which turns into the restart-delay timer task    *)
(* inside handleRestart) advance by one action per locked section.  The    *)
(* steps a goroutine takes without the lock and that no other task can     *)
(* observe (cmd.Wait() returning, the select choosing a branch) are part   *)
(* of the locked section that follows them.                                *)
(*                                                                         *)
(* Go pointers are sequences of length at most one: <<>> is nil and <<v>>  *)
(* points to v.  Integer handles use 0 for nil.                            *)
(***************************************************************************)
EXTENDS Integers, FiniteSets, Sequences, TLC

\* ---------------------------------------------------------------------
\* Bounds
\* ---------------------------------------------------------------------
\* number of child processes one Instance may spawn in a behaviour
MaxChildren == 3

Names == {"a", "b"}
ChildIds == 1..MaxChildren

\* cmd handle values: 0 is a nil *exec.Cmd, Unstarted is a Cmd built by
\* exec.CommandContext whose Start() never succeeded, c > 0 is child c
Unstarted == 0 - 1

NilPtr == <<>>
Ptr(v) == <<v>>
Deref(p) == p[1]

Upd(f, n, v) == [f EXCEPT ![n] = v]

VARIABLES
    instances,      \* names known to the registry
    options,        \* options[n]: *CreateInstanceOptions
    Running,        \* Running[n]
    logFile,        \* logFile[n]: 0 nil, 1 an open *os.File
    cmd,            \* cmd[n]: the *exec.Cmd (and its ctx/cancel pair)
    restarts,       \* restarts[n]
    proxy,          \* proxy[n]: 0 nil, else the port of the proxy's target
    restartCancel,  \* restartCancel[n]: 0 nil, else the timer it cancels
    proc,           \* proc[n][c]: OS state of child c
    mon,            \* mon[n][m]: where the goroutine `go i.monitorProcess()` of child m is
    cancelled,      \* cancelled[n]: restart contexts cancelled while their timer task waits
    stopped,        \* stopped[n]: children a successful Stop acted on, exit not yet handled
    mu,             \* mu[n]: the task holding i.mu, Free when none
    ev              \* the last call or step and what it returned

ivars == <<options, Running, logFile, cmd, restarts, proxy, restartCancel,
           proc, mon, cancelled, stopped>>
vars == <<instances, options, Running, logFile, cmd, restarts, proxy,
          restartCancel, proc, mon, cancelled, stopped, mu, ev>>

Ev(op, n, res, via) == [op |-> op, name |-> n, res |-> res, via |-> via]

\* ---------------------------------------------------------------------
\* Instance.mu
\* ---------------------------------------------------------------------
\* a task: the call op of an operator (m = 0) or the step op of the goroutine
\* that Start launched for child m
H(op, m) == [op |-> op, m |-> m]
Free == H("", 0)

\* i.mu.Lock() by task h: it takes the free lock in this step, or took it in
\* an earlier step of its own
Lock(n, h) == mu[n] \in {Free, h}

\* i.mu.Unlock()
Unlock(n) == mu' = Upd(mu, n, Free)

\* ---------------------------------------------------------------------
\* Options
\* ---------------------------------------------------------------------
Opt(auto, max, delay, port) ==
    [AutoRestart |-> auto, MaxRestarts |-> max, RestartDelay |-> delay, Port |-> port]

\* InstancesConfig defaults (configuration, injected into NewInstance)
DefaultAutoRestart == TRUE
DefaultMaxRestarts == 1
DefaultRestartDelay == 5

\* NewInstance, lines 58-115: deep copy with clamping, then defaults
NewInstanceMaxRestarts(p) ==
    IF p = NilPtr THEN Ptr(DefaultMaxRestarts)
    ELSE IF Deref(p) > 100 THEN Ptr(100)
    ELSE IF Deref(p) < 0 THEN Ptr(0)
    ELSE p

NewInstanceRestartDelay(p) ==
    IF p = NilPtr THEN Ptr(DefaultRestartDelay)
    ELSE IF Deref(p) < 1 THEN Ptr(5)
    ELSE IF Deref(p) > 300 THEN Ptr(300)
    ELSE p

NewInstanceOptions(o) ==
    IF o = NilPtr
    THEN Ptr(Opt(Ptr(DefaultAutoRestart), Ptr(DefaultMaxRestarts),
                 Ptr(DefaultRestartDelay), 0))
    ELSE Ptr(Opt(IF Deref(o).AutoRestart = NilPtr THEN Ptr(DefaultAutoRestart)
                 ELSE Deref(o).AutoRestart,
                 NewInstanceMaxRestarts(Deref(o).MaxRestarts),
                 NewInstanceRestartDelay(Deref(o).RestartDelay),
                 Deref(o).Port))

\* ---------------------------------------------------------------------
\* Inputs
\* ---------------------------------------------------------------------
Port1 == 8081
Port2 == 8082

\* options handed to NewInstance: auto_restart left to the default, a
\* restart delay below the minimum
CreateInputs ==
    { Ptr(Opt(NilPtr, Ptr(2), Ptr(0), Port1)) }

\* options handed to SetOptions
SetInputs ==
    { NilPtr,
      Ptr(Opt(Ptr(TRUE), Ptr(1), Ptr(1), Port2)),
      Ptr(Opt(NilPtr, Ptr(0), Ptr(1), Port1)) }

\* the step of Start the environment makes fail
StartFailures == {"none", "log", "pipe", "spawn"}

\* ---------------------------------------------------------------------
\* Initial state: NewInstance, lines 108-114
\* ---------------------------------------------------------------------
InitInstance(opts) ==
    /\ options = [n \in Names |-> opts[n]]
    /\ Running = [n \in Names |-> FALSE]
    /\ logFile = [n \in Names |-> 0]
    /\ cmd = [n \in Names |-> 0]
    /\ restarts = [n \in Names |-> 0]
    /\ proxy = [n \in Names |-> 0]
    /\ restartCancel = [n \in Names |-> 0]
    /\ proc = [n \in Names |-> [c \in ChildIds |-> "none"]]
    /\ mon = [n \in Names |-> [c \in ChildIds |-> "none"]]
    /\ cancelled = [n \in Names |-> {}]
    /\ stopped = [n \in Names |-> {}]
    /\ mu = [n \in Names |-> Free]
    /\ ev = Ev("NewInstance", "a", "ok", "")

Init ==
    /\ instances = {"a"}
    /\ \E o \in CreateInputs :
          InitInstance([n \in Names |-> NewInstanceOptions(o)])

\* ---------------------------------------------------------------------
\* Child processes and their monitor goroutines
\* ---------------------------------------------------------------------
\* proc[n][c]: "none" not spawned, "alive", "exit0" exited with status 0,
\*   "exit1" exited with an error status, "killed" killed by Stop,
\*   "reaped" exited and the exit handled by monitorProcess
\* mon[n][m]:  "none" not started, "wait" in cmd.Wait() or i.mu.Lock(),
\*   "sleep" in the select of handleRestart, "clear" restarted and waiting
\*   for i.mu.Lock() at line 434, "done" returned
\* The goroutine of child m evaluates i.cmd (line 369) when it starts to run,
\* which is taken to be before a later Start assigns i.cmd: it waits on child m.
Alive(n) == {c \in ChildIds : proc[n][c] = "alive"}
Spawned(n) == {c \in ChildIds : proc[n][c] # "none"}

\* a restart context is only observed by the select of a sleeping timer task
Cancel(n, h) ==
    IF h # 0 /\ mon[n][h] = "sleep" THEN cancelled[n] \cup {h} ELSE cancelled[n]

\* the child exits on its own: status 0 (clean) or non-zero (crash)
ChildExit(n, c, clean) ==
    /\ n \in instances
    /\ proc[n][c] = "alive"
    /\ proc' = Upd(proc, n, [proc[n] EXCEPT ![c] = IF clean THEN "exit0" ELSE "exit1"])
    /\ ev' = Ev("exit", n, "", "")
    /\ UNCHANGED <<instances, options, Running, logFile, cmd, restarts, proxy,
                   restartCancel, mon, cancelled, stopped, mu>>

\* ---------------------------------------------------------------------
\* Instance.Start, lines 202-257
\* ---------------------------------------------------------------------
\* a Start that does not look at Running
StartNeverRefused(n) == FALSE

\* line 206
StartRefused(n) == Running[n]

\* what Start returns when the environment fails step `fail`:
\* "log" is createLogFile (216), "pipe" is StdoutPipe or StderrPipe (233-243),
\* "spawn" is cmd.Start (245)
StartResult(n, fail) ==
    IF StartRefused(n) THEN "AlreadyRunning"
    ELSE IF options[n] = NilPtr THEN "NoOptions"
    ELSE IF fail = "log" THEN "LogFileErr"
    ELSE IF fail = "pipe" THEN "PipeErr"
    ELSE IF fail = "spawn" THEN "SpawnErr"
    ELSE "ok"

\* the log-file handle Start leaves behind (createLogFile / closeLogFile)
StartLogFile(n, res) ==
    CASE res \in {"AlreadyRunning", "NoOptions", "LogFileErr"} -> logFile[n]
      [] res = "PipeErr" -> 0
      [] OTHER -> 1

\* i.cmd after Start (line 223 is reached once the log file is open)
StartCmd(n, res, c) ==
    CASE res \in {"AlreadyRunning", "NoOptions", "LogFileErr"} -> cmd[n]
      [] res = "ok" -> c
      [] OTHER -> Unstarted

\* the body of Start under i.mu; monBase is mon[n] as the caller leaves it
StartBody(n, fail, op, monBase) ==
    LET res == StartResult(n, fail)
        c == Cardinality(Spawned(n)) + 1
    IN  /\ res = "ok" => c \in ChildIds
        /\ ev' = Ev(op, n, res, "")
        /\ logFile' = Upd(logFile, n, StartLogFile(n, res))
        /\ cmd' = Upd(cmd, n, StartCmd(n, res, c))
        /\ Running' = Upd(Running, n, IF res = "ok" THEN TRUE ELSE Running[n])
        /\ proc' = Upd(proc, n, IF res = "ok" THEN [proc[n] EXCEPT ![c] = "alive"]
                                ELSE proc[n])
        /\ mon' = Upd(mon, n, IF res = "ok" THEN [monBase EXCEPT ![c] = "wait"]
                              ELSE monBase)
        /\ UNCHANGED <<instances, options, restarts, proxy, restartCancel, stopped>>

\* Start called by an operator
Start(n, fail) ==
    /\ n \in instances
    /\ Lock(n, H("Start", 0))
    /\ StartBody(n, fail, "Start", mon[n])
    /\ Unlock(n)
    /\ UNCHANGED cancelled

\* ---------------------------------------------------------------------
\* Instance.Stop, lines 260-307
\* ---------------------------------------------------------------------
\* i.cancel() kills the process of i.cmd; Stop then waits for its exit, and
\* kills it again after 5 seconds.  timeout says which branch of the select
\* at lines 292-300 was taken.
Stop(n, timeout) ==
    /\ n \in instances
    /\ Lock(n, H("Stop", 0))
    /\ cancelled' = Upd(cancelled, n, Cancel(n, restartCancel[n]))
    /\ restartCancel' = Upd(restartCancel, n, 0)
    /\ Unlock(n)
    /\ IF ~Running[n]
       THEN /\ ~timeout
            /\ ev' = Ev("Stop", n, "NotRunning",
                        IF restartCancel[n] # 0 THEN "cancelled" ELSE "")
            /\ UNCHANGED <<Running, logFile, proxy, proc, stopped>>
       ELSE IF cmd[n] = 0
       THEN \* line 281: i.cancel is nil, the call panics; the deferred
            \* Unlock of line 262 runs
            /\ ~timeout
            /\ ev' = Ev("Stop", n, "panic", "")
            /\ UNCHANGED <<Running, logFile, proxy, proc, stopped>>
       ELSE /\ timeout => cmd[n] \in Alive(n)
            /\ proc' = Upd(proc, n, [c \in ChildIds |->
                             IF c = cmd[n] /\ proc[n][c] = "alive" THEN "killed"
                             ELSE proc[n][c]])
            /\ proxy' = Upd(proxy, n, 0)
            /\ Running' = Upd(Running, n, FALSE)
            /\ logFile' = Upd(logFile, n, 0)
            /\ stopped' = Upd(stopped, n, stopped[n] \cup
                              {c \in {cmd[n]} : c \in ChildIds /\ mon[n][c] = "wait"})
            /\ ev' = Ev("Stop", n, "ok", IF timeout THEN "timeout" ELSE "exited")
    /\ UNCHANGED <<instances, options, cmd, restarts, mon>>

\* ---------------------------------------------------------------------
\* Instance.SetOptions, lines 150-179, and GetProxy, lines 182-200
\* ---------------------------------------------------------------------
\* SetOptions without the reset of the cached proxy at line 176
SetOptionsKeepsProxy(n, o) ==
    /\ n \in instances
    /\ Lock(n, H("SetOptions", 0))
    /\ IF o = NilPtr
       THEN /\ ev' = Ev("SetOptions", n, "nil", "")
            /\ UNCHANGED options
       ELSE /\ options' = Upd(options, n,
                   Ptr(Opt(Deref(o).AutoRestart, Deref(o).MaxRestarts,
                           Deref(o).RestartDelay, Deref(o).Port)))
            /\ ev' = Ev("SetOptions", n, "ok", "")
    /\ Unlock(n)
    /\ UNCHANGED <<instances, Running, logFile, cmd, restarts, restartCancel,
                   proxy, proc, mon, cancelled, stopped>>

\* SetOptions that also resets the restart counter
SetOptionsResetsRestarts(n, o) ==
    /\ n \in instances
    /\ Lock(n, H("SetOptions", 0))
    /\ IF o = NilPtr
       THEN /\ ev' = Ev("SetOptions", n, "nil", "")
            /\ UNCHANGED <<options, proxy>>
       ELSE /\ options' = Upd(options, n,
                   Ptr(Opt(Deref(o).AutoRestart, Deref(o).MaxRestarts,
                           Deref(o).RestartDelay, Deref(o).Port)))
            /\ proxy' = Upd(proxy, n, 0)
            /\ ev' = Ev("SetOptions", n, "ok", "")
    /\ restarts' = Upd(restarts, n, 0)
    /\ Unlock(n)
    /\ UNCHANGED <<instances, Running, logFile, cmd, restartCancel,
                   proc, mon, cancelled, stopped>>

SetOptions(n, o) ==
    /\ n \in instances
    /\ Lock(n, H("SetOptions", 0))
    /\ IF o = NilPtr
       THEN /\ ev' = Ev("SetOptions", n, "nil", "")
            /\ UNCHANGED <<options, proxy>>
       ELSE /\ options' = Upd(options, n,
                   Ptr(Opt(Deref(o).AutoRestart, Deref(o).MaxRestarts,
                           Deref(o).RestartDelay, Deref(o).Port)))
            /\ proxy' = Upd(proxy, n, 0)
            /\ ev' = Ev("SetOptions", n, "ok", "")
    /\ Unlock(n)
    /\ UNCHANGED <<instances, Running, logFile, cmd, restarts, restartCancel,
                   proc, mon, cancelled, stopped>>

GetProxy(n) ==
    /\ n \in instances
    /\ Lock(n, H("GetProxy", 0))
    /\ Unlock(n)
    /\ IF proxy[n] = 0
       THEN IF options[n] = NilPtr
            THEN /\ ev' = Ev("GetProxy", n, "NoOptions", "")
                 /\ UNCHANGED proxy
            ELSE /\ proxy' = Upd(proxy, n, Deref(options[n]).Port)
                 /\ ev' = Ev("GetProxy", n, "ok", "")
       ELSE /\ ev' = Ev("GetProxy", n, "ok", "")
            /\ UNCHANGED proxy
    /\ UNCHANGED <<instances, options, Running, logFile, cmd, restarts,
                   restartCancel, proc, mon, cancelled, stopped>>

\* ---------------------------------------------------------------------
\* Instance.validateRestartConditions, lines 441-472
\* ---------------------------------------------------------------------
NoRestart == [shouldRestart |-> FALSE, maxRestarts |-> 0, restartDelay |-> 0]

\* the comparison of line 466 off by one
ExceededMaxRestartsOffByOne(n, maxRestarts) == restarts[n] > maxRestarts

\* line 466
ExceededMaxRestarts(n, maxRestarts) == restarts[n] >= maxRestarts

\* validateRestartConditions without the check of line 466
validateRestartConditionsNoCap(n) ==
    IF options[n] = NilPtr THEN NoRestart
    ELSE LET o == Deref(options[n]) IN
         IF o.AutoRestart = NilPtr \/ ~Deref(o.AutoRestart) THEN NoRestart
         ELSE IF o.MaxRestarts = NilPtr THEN NoRestart
         ELSE IF o.RestartDelay = NilPtr THEN NoRestart
         ELSE [shouldRestart |-> TRUE, maxRestarts |-> Deref(o.MaxRestarts),
               restartDelay |-> Deref(o.RestartDelay)]

\* validateRestartConditions without the check of AutoRestart at line 447
validateRestartConditionsAnyAuto(n) ==
    IF options[n] = NilPtr THEN NoRestart
    ELSE LET o == Deref(options[n]) IN
         IF o.MaxRestarts = NilPtr THEN NoRestart
         ELSE IF o.RestartDelay = NilPtr THEN NoRestart
         ELSE IF ExceededMaxRestarts(n, Deref(o.MaxRestarts)) THEN NoRestart
         ELSE [shouldRestart |-> TRUE, maxRestarts |-> Deref(o.MaxRestarts),
               restartDelay |-> Deref(o.RestartDelay)]

validateRestartConditions(n) ==
    IF options[n] = NilPtr THEN NoRestart
    ELSE LET o == Deref(options[n]) IN
         IF o.AutoRestart = NilPtr \/ ~Deref(o.AutoRestart) THEN NoRestart
         ELSE IF o.MaxRestarts = NilPtr THEN NoRestart
         ELSE IF o.RestartDelay = NilPtr THEN NoRestart
         ELSE IF ExceededMaxRestarts(n, Deref(o.MaxRestarts)) THEN NoRestart
         ELSE [shouldRestart |-> TRUE, maxRestarts |-> Deref(o.MaxRestarts),
               restartDelay |-> Deref(o.RestartDelay)]

\* ---------------------------------------------------------------------
\* Instance.monitorProcess, lines 368-396, with handleRestart, lines 399-438
\* ---------------------------------------------------------------------
SetMon(n, m, pc) == Upd(mon, n, [mon[n] EXCEPT ![m] = pc])

\* The values err := i.cmd.Wait() (line 369) can take for child m.  Stop calls
\* cmd.Wait() on the same Cmd from another goroutine (line 289): the Wait that
\* loses the race returns an error whatever the exit status was.
WaitErrors(n, m) ==
    CASE proc[n][m] \in {"exit1", "killed"} -> {TRUE}
      [] proc[n][m] = "exit0" -> IF m \in stopped[n] THEN {TRUE, FALSE} ELSE {FALSE}
      [] OTHER -> {}

\* handleRestart returning or sleeping with the lock it was handed
handleRestartKeepsLock(n) == UNCHANGED mu

\* lines 403 and 416: handleRestart releases the lock monitorProcess took
handleRestartUnlock(n) == Unlock(n)

\* line 373: the exit is ignored when the Instance is not running
ExitIgnored(n) == ~Running[n]

\* lines 369-396 and 399-416: cmd.Wait() has returned err; from i.mu.Lock() to
\* the i.mu.Unlock() of the path taken
MonitorExit(n, m, err) ==
    /\ n \in instances
    /\ mon[n][m] = "wait"
    /\ err \in WaitErrors(n, m)
    /\ Lock(n, H("monitor", m))
    /\ proc' = Upd(proc, n, [proc[n] EXCEPT ![m] = "reaped"])
    /\ stopped' = Upd(stopped, n, stopped[n] \ {m})
    /\ IF ExitIgnored(n)
       THEN /\ mon' = SetMon(n, m, "done")
            /\ ev' = Ev("monitor", n, "ignored", "")
            /\ Unlock(n)
            /\ UNCHANGED <<Running, logFile, restarts, restartCancel, cancelled>>
       ELSE /\ Running' = Upd(Running, n, FALSE)
            /\ logFile' = Upd(logFile, n, 0)
            /\ cancelled' = Upd(cancelled, n, Cancel(n, restartCancel[n]))
            /\ IF err THEN handleRestartUnlock(n) ELSE Unlock(n)
            /\ IF err /\ validateRestartConditions(n).shouldRestart
               THEN /\ restarts' = Upd(restarts, n, restarts[n] + 1)
                    /\ restartCancel' = Upd(restartCancel, n, m)
                    /\ mon' = SetMon(n, m, "sleep")
                    /\ ev' = Ev("monitor", n, "restarting", "")
               ELSE /\ restartCancel' = Upd(restartCancel, n, 0)
                    /\ mon' = SetMon(n, m, "done")
                    /\ ev' = Ev("monitor", n, "stopped", "")
                    /\ UNCHANGED restarts
    /\ UNCHANGED <<instances, options, cmd, proxy>>

\* lines 422-425: the select takes the restartCtx.Done() branch
TimerCancelled(n, m) ==
    /\ n \in instances
    /\ mon[n][m] = "sleep"
    /\ m \in cancelled[n]
    /\ mon' = SetMon(n, m, "done")
    /\ cancelled' = Upd(cancelled, n, cancelled[n] \ {m})
    /\ ev' = Ev("timer", n, "cancelled", "")
    /\ UNCHANGED <<instances, options, Running, logFile, cmd, restarts, proxy,
                   restartCancel, proc, stopped, mu>>

\* lines 419-421 and 429-432: the select takes the time.After branch (it may,
\* also when the context is cancelled by then) and the task calls i.Start()
RestartStart(n, m, fail) ==
    /\ n \in instances
    /\ mon[n][m] = "sleep"
    /\ Lock(n, H("restart", m))
    /\ Unlock(n)
    /\ StartBody(n, fail, "restart",
                 [mon[n] EXCEPT ![m] = IF StartResult(n, fail) = "ok"
                                       THEN "clear" ELSE "done"])
    /\ cancelled' = Upd(cancelled, n, cancelled[n] \ {m})

\* lines 434-436: after a successful restart the cancel handle is cleared
RestartClear(n, m) ==
    /\ n \in instances
    /\ mon[n][m] = "clear"
    /\ Lock(n, H("clear", m))
    /\ Unlock(n)
    /\ UNCHANGED cancelled
    /\ restartCancel' = Upd(restartCancel, n, 0)
    /\ mon' = SetMon(n, m, "done")
    /\ ev' = Ev("timer", n, "cleared", "")
    /\ UNCHANGED <<instances, options, Running, logFile, cmd, restarts, proxy,
                   proc, stopped>>

\* ---------------------------------------------------------------------
\* One Instance under an operator
\* ---------------------------------------------------------------------
Next ==
    \/ \E n \in Names, fail \in StartFailures : Start(n, fail)
    \/ \E n \in Names, timeout \in BOOLEAN : Stop(n, timeout)
    \/ \E n \in Names, o \in SetInputs : SetOptions(n, o)
    \/ \E n \in Names : GetProxy(n)
    \/ \E n \in Names, c \in ChildIds, clean \in BOOLEAN : ChildExit(n, c, clean)
    \/ \E n \in Names, m \in ChildIds, err \in BOOLEAN : MonitorExit(n, m, err)
    \/ \E n \in Names, m \in ChildIds : TimerCancelled(n, m)
    \/ \E n \in Names, m \in ChildIds, fail \in StartFailures : RestartStart(n, m, fail)
    \/ \E n \in Names, m \in ChildIds : RestartClear(n, m)

Spec == Init /\ [][Next]_vars

\* ---------------------------------------------------------------------
\* Crash loop: one operator Start, then a child that crashes whenever it runs
\* ---------------------------------------------------------------------
DelayInputs == {1, 5, 300}

InitCrash ==
    /\ instances = {"a"}
    /\ \E N \in 0..(MaxChildren - 1), d \in DelayInputs :
          InitInstance([n \in Names |->
              NewInstanceOptions(Ptr(Opt(Ptr(TRUE), Ptr(N), Ptr(d), Port1)))])

\* No Stop is called, so no restart context is cancelled while its timer task
\* sleeps and the Done branch of the select is never taken.
NextCrash ==
    \/ Spawned("a") = {} /\ Start("a", "none")
    \/ \E c \in ChildIds : ChildExit("a", c, FALSE)
    \/ \E m \in ChildIds, err \in BOOLEAN : MonitorExit("a", m, err)
    \/ \E m \in ChildIds : RestartStart("a", m, "none")
    \/ \E m \in ChildIds : RestartClear("a", m)

\* every child crashes, and every goroutine that can run is scheduled
SpecCrash == InitCrash /\ [][NextCrash]_vars /\ WF_vars(NextCrash)

\* ---------------------------------------------------------------------
\* Registry with the global cap (design sections 4.2 and 4.3)
\* ---------------------------------------------------------------------
\* max_running_instances: one slot less than there are instances
MaxRunningInstances == Cardinality(Names) - 1

RunningInstances == {n \in instances : Running[n]}

\* child processes spawned by the whole fleet
FleetSpawned == UNION {{<<n, c>> : c \in Spawned(n)} : n \in Names}

InitFleet ==
    /\ instances = Names
    /\ InitInstance([n \in Names |->
           NewInstanceOptions(Ptr(Opt(Ptr(TRUE), Ptr(1), Ptr(1), Port1)))])

\* Start(name) asks for admission first; a full fleet refuses the Start
\* (to evict, the caller stops a victim with RegistryStop and asks again)
RegistryStart(n) ==
    /\ n \in instances
    /\ IF Cardinality(RunningInstances) < MaxRunningInstances
       THEN Start(n, "none")
       ELSE /\ ev' = Ev("Start", n, "CapacityExceeded", "")
            /\ UNCHANGED <<instances, options, Running, logFile, cmd, restarts,
                           proxy, restartCancel, proc, mon, cancelled, stopped, mu>>

RegistryStop(n) == Stop(n, FALSE)

\* Delete requires a stopped instance and cancels its supervisor tasks
RegistryDelete(n) ==
    /\ n \in instances
    /\ ~Running[n]
    /\ instances' = instances \ {n}
    /\ mon' = Upd(mon, n, [m \in ChildIds |-> IF mon[n][m] = "none" THEN "none" ELSE "done"])
    /\ cancelled' = Upd(cancelled, n, {})
    /\ restartCancel' = Upd(restartCancel, n, 0)
    /\ ev' = Ev("Delete", n, "ok", "")
    /\ UNCHANGED <<options, Running, logFile, cmd, restarts, proxy, proc, stopped, mu>>

\* Create makes a fresh, stopped Instance with NewInstance
RegistryCreate(n, o) ==
    /\ n \notin instances
    /\ instances' = instances \cup {n}
    /\ options' = Upd(options, n, NewInstanceOptions(o))
    /\ Running' = Upd(Running, n, FALSE)
    /\ logFile' = Upd(logFile, n, 0)
    /\ cmd' = Upd(cmd, n, 0)
    /\ restarts' = Upd(restarts, n, 0)
    /\ proxy' = Upd(proxy, n, 0)
    /\ restartCancel' = Upd(restartCancel, n, 0)
    /\ ev' = Ev("Create", n, "ok", "")
    /\ UNCHANGED <<proc, mon, cancelled, stopped, mu>>

\* the fleet as a whole spawns at most MaxChildren child processes
FleetBudget == Cardinality(FleetSpawned') <= MaxChildren

NextFleet ==
    \/ \E n \in Names : RegistryStart(n) /\ FleetBudget
    \/ \E n \in Names : RegistryStop(n)
    \/ \E n \in Names : RegistryDelete(n)
    \/ \E n \in Names : RegistryCreate(n, Ptr(Opt(Ptr(TRUE), Ptr(1), Ptr(1), Port1)))
    \/ \E n \in Names, c \in ChildIds : ChildExit(n, c, FALSE)
    \/ \E n \in Names, m \in ChildIds, err \in BOOLEAN : MonitorExit(n, m, err)
    \/ \E n \in Names, m \in ChildIds : TimerCancelled(n, m)
    \/ \E n \in Names, m \in ChildIds : RestartStart(n, m, "none") /\ FleetBudget
    \/ \E n \in Names, m \in ChildIds : RestartClear(n, m)

SpecFleet == InitFleet /\ [][NextFleet]_vars

\* =====================================================================
\* Properties
\* =====================================================================

\* C1: at most one child process spawned for an Instance is alive at any time.
C1_AtMostOneChild == \A n \in Names : Cardinality(Alive(n)) <= 1

\* C2: the exit of a child that a successful Stop stopped never leads to an
\* automatic restart: when its monitor handles the exit, restarts is not
\* incremented, no restart timer is armed and the monitor returns.
C2_StoppedExitNeverRestarts ==
    [][\A n \in Names, m \in ChildIds :
          (m \in stopped[n] /\ mon[n][m] = "wait" /\ mon'[n][m] # "wait")
          => /\ mon'[n][m] = "done"
             /\ restarts'[n] = restarts[n]
             /\ restartCancel'[n] # m]_vars

\* C3: a Stop called while a restart timer is pending and before the restart
\* has spawned a child cancels the restart: the timer task whose context Stop
\* cancelled spawns no child, Stop on a stopped Instance returns NotRunning,
\* and Stop leaves restarts as it was.
C3_StopCancelsPendingRestart ==
    [][\A n \in Names :
          /\ \A m \in ChildIds :
                (m \in cancelled[n] /\ mon[n][m] = "sleep") => mon'[n][m] # "clear"
          /\ (ev'.op = "Stop" /\ ev'.name = n)
                => /\ restarts'[n] = restarts[n]
                   /\ ~Running[n] => ev'.res = "NotRunning"]_vars

\* restarts[n] is within the configured cap
WithinMaxRestarts(n) ==
    /\ options[n] # NilPtr
    /\ Deref(options[n]).MaxRestarts # NilPtr
    /\ restarts[n] <= Deref(Deref(options[n]).MaxRestarts)

\* C4 (as stated): in every reachable state restarts <= options.max_restarts,
\* SetOptions calls that change max_restarts included.
C4_RestartsAtMostMax == \A n \in instances : WithinMaxRestarts(n)

\* C4 (amended): every increment of restarts is by one and leaves restarts
\* within the max_restarts in force, and only a SetOptions step can take an
\* Instance from restarts <= max_restarts to restarts > max_restarts.
C4_RestartsAtMostMaxUnlessLowered ==
    [][\A n \in instances :
          /\ restarts'[n] # restarts[n]
                => /\ restarts'[n] = restarts[n] + 1
                   /\ options'[n] = options[n]
                   /\ WithinMaxRestarts(n)'
          /\ (WithinMaxRestarts(n) /\ ~WithinMaxRestarts(n)')
                => (ev'.op = "SetOptions" /\ ev'.name = n)]_vars

\* C4 witness: after SetOptions changed max_restarts to 1 and moved the port,
\* a crash is counted as restart number 1
C4_Witness ==
    /\ ev = Ev("monitor", "a", "restarting", "")
    /\ options["a"] = Ptr(Opt(Ptr(TRUE), Ptr(1), Ptr(1), Port2))
    /\ restarts["a"] = 1

\* the cap of the crash loop (its options never change)
CrashCap == Deref(Deref(options["a"]).MaxRestarts)

\* the crash loop is over: stopped, nothing alive, no timer task left
CrashSettled ==
    /\ ~Running["a"]
    /\ Alive("a") = {}
    /\ restarts["a"] = CrashCap
    /\ Cardinality(Spawned("a")) = CrashCap + 1
    /\ restartCancel["a"] = 0
    /\ \A m \in ChildIds : mon["a"][m] \in {"none", "done"}

\* C5: with auto_restart and max_restarts = N, a child that crashes whenever
\* it runs and no operator call after the first Start, restarts never exceeds
\* N, at most N + 1 children are spawned, and the Instance ends up stopped for
\* good with restarts = N, N + 1 children spawned and no restart timer pending.
C5_ExactlyMaxRestarts ==
    /\ [](restarts["a"] <= CrashCap /\ Cardinality(Spawned("a")) <= CrashCap + 1)
    /\ <>[]CrashSettled

\* C5 witness: three crashes, two restarts
C5_Witness == CrashSettled /\ CrashCap = 2

\* C6: a successful operator Start resets restarts to zero.
C6_OperatorStartResetsRestarts ==
    (ev.op = "Start" /\ ev.res = "ok") => restarts[ev.name] = 0

\* C7: the number of running Instances never exceeds max_running_instances.
C7_RunningWithinCap == Cardinality(RunningInstances) <= MaxRunningInstances

\* C8: Start on a running Instance, by an operator or by a fired restart
\* timer, returns AlreadyRunning and changes nothing: no child is spawned, no
\* log file is opened, and Running, options, restarts, the proxy and the
\* restart-cancel handle keep their values.
C8_StartWhileRunningIsRefused ==
    [][\A n \in Names :
          (ev'.op \in {"Start", "restart"} /\ ev'.name = n /\ Running[n])
          => /\ ev'.res = "AlreadyRunning"
             /\ UNCHANGED <<options, Running, logFile, cmd, restarts, proxy,
                            restartCancel, proc>>
             /\ \A m \in ChildIds : mon[n][m] = "none" => mon'[n][m] = "none"]_vars

\* C8 witness: the Start of a fired restart timer was refused
C8_Witness == ev = Ev("restart", "a", "AlreadyRunning", "") /\ Running["a"]

StartErrors == {"LogFileErr", "PipeErr", "SpawnErr"}

\* C9: a Start that fails in one of its steps leaves the Instance stopped with
\* its log file closed and the handle nil, spawns nothing and arms no restart.
C9_FailedStartReleases ==
    [][\A n \in Names :
          (ev'.op \in {"Start", "restart"} /\ ev'.name = n /\ ev'.res \in StartErrors)
          => /\ ~Running'[n]
             /\ logFile'[n] = 0
             /\ UNCHANGED <<proc, restarts, restartCancel>>]_vars

\* C10: after a successful Stop the Instance is not running, proxy, log file
\* and restart-cancel handle are nil and none of its child processes is alive.
C10_StopReleasesEverything ==
    (ev.op = "Stop" /\ ev.res = "ok")
    => /\ ~Running[ev.name]
       /\ proxy[ev.name] = 0
       /\ logFile[ev.name] = 0
       /\ restartCancel[ev.name] = 0
       /\ Alive(ev.name) = {}

\* ---------------------------------------------------------------------
\* Restart policy: SetOptions with every shape of restart policy
\* ---------------------------------------------------------------------
\* restart policies handed to SetOptions: each precondition of a restart
\* missing in turn
PolicyInputs ==
    { Ptr(Opt(Ptr(TRUE), Ptr(1), Ptr(1), Port1)),
      Ptr(Opt(Ptr(FALSE), Ptr(1), Ptr(1), Port1)),
      Ptr(Opt(NilPtr, Ptr(1), Ptr(1), Port1)),
      Ptr(Opt(Ptr(TRUE), NilPtr, Ptr(1), Port1)),
      Ptr(Opt(Ptr(TRUE), Ptr(1), NilPtr, Port1)) }

\* the Instance spawns one child less than MaxChildren
PolicyBudget == \A n \in Names : Cardinality(Spawned(n)') < MaxChildren

NextPolicy ==
    \/ \E n \in Names : Start(n, "none") /\ PolicyBudget
    \/ \E n \in Names : Stop(n, FALSE)
    \/ \E n \in Names, o \in PolicyInputs : SetOptions(n, o)
    \/ \E n \in Names, c \in ChildIds, clean \in BOOLEAN : ChildExit(n, c, clean)
    \/ \E n \in Names, m \in ChildIds, err \in BOOLEAN : MonitorExit(n, m, err)
    \/ \E n \in Names, m \in ChildIds : TimerCancelled(n, m)
    \/ \E n \in Names, m \in ChildIds : RestartStart(n, m, "none") /\ PolicyBudget
    \/ \E n \in Names, m \in ChildIds : RestartClear(n, m)

SpecPolicy == Init /\ [][NextPolicy]_vars

\* the monitor of child m handles the exit in this step, with Running true
MonitorHandles(n, m) ==
    mon[n][m] = "wait" /\ mon'[n][m] # "wait" /\ Running[n]

\* what every handled exit does, and what it does when it restarts or not
MonitorOutcome(n, m, restart) ==
    /\ ~Running'[n]
    /\ logFile'[n] = 0
    /\ Spawned(n)' = Spawned(n)
    /\ Alive(n)' = Alive(n)
    /\ IF restart
       THEN restarts'[n] = restarts[n] + 1 /\ restartCancel'[n] = m
            /\ mon'[n][m] = "sleep"
       ELSE restarts'[n] = restarts[n] /\ restartCancel'[n] = 0
            /\ mon'[n][m] = "done"

\* the preconditions of a restart the design names
RestartPreconditions(n) ==
    /\ options[n] # NilPtr
    /\ Deref(options[n]).AutoRestart = Ptr(TRUE)
    /\ Deref(options[n]).MaxRestarts # NilPtr
    /\ restarts[n] < Deref(Deref(options[n]).MaxRestarts)

\* C11 (as stated): a monitor that sees its child exit while Running is true
\* sets Running false and closes the log file, and increments restarts by one
\* and arms a restart timer exactly when cmd.Wait returned an error,
\* auto_restart is true, restarts < max_restarts and options are non-nil;
\* otherwise restarts is unchanged, no timer is armed; no child is spawned.
C11_RestartIffPreconditions ==
    [][\A n \in Names, m \in ChildIds :
          MonitorHandles(n, m)
          => \E err \in WaitErrors(n, m) :
                MonitorOutcome(n, m, err /\ RestartPreconditions(n))]_vars

\* C11 (amended): as C11, with restart_delay_seconds set as one more
\* precondition of the restart.
C11_RestartIffPreconditionsAndDelay ==
    [][\A n \in Names, m \in ChildIds :
          MonitorHandles(n, m)
          => \E err \in WaitErrors(n, m) :
                MonitorOutcome(n, m, /\ err
                                     /\ RestartPreconditions(n)
                                     /\ Deref(options[n]).RestartDelay # NilPtr)]_vars

\* C11 witness: a crash is not restarted because auto_restart is false
C11_Witness ==
    /\ ev = Ev("monitor", "a", "stopped", "")
    /\ Deref(options["a"]).AutoRestart = Ptr(FALSE)
    /\ \E m \in ChildIds : proc["a"][m] = "reaped" /\ mon["a"][m] = "done"
    /\ restarts["a"] = 0

\* ---------------------------------------------------------------------
\* Reconfiguration: SetOptions and GetProxy in every state of the lifecycle,
\* with a file system and an exec that do not fail
\* ---------------------------------------------------------------------
NextConfig ==
    \/ \E n \in Names : Start(n, "none") /\ PolicyBudget
    \/ \E n \in Names, timeout \in BOOLEAN : Stop(n, timeout)
    \/ \E n \in Names, o \in SetInputs : SetOptions(n, o)
    \/ \E n \in Names : GetProxy(n)
    \/ \E n \in Names, c \in ChildIds, clean \in BOOLEAN : ChildExit(n, c, clean)
    \/ \E n \in Names, m \in ChildIds, err \in BOOLEAN : MonitorExit(n, m, err)
    \/ \E n \in Names, m \in ChildIds : TimerCancelled(n, m)
    \/ \E n \in Names, m \in ChildIds : RestartStart(n, m, "none") /\ PolicyBudget
    \/ \E n \in Names, m \in ChildIds : RestartClear(n, m)

SpecConfig == Init /\ [][NextConfig]_vars

C14_SetOptionsFrame ==
    [][\A n \in Names :
          (ev'.op = "SetOptions" /\ ev'.name = n)
          => /\ UNCHANGED <<instances, Running, logFile, cmd, restarts,
                            restartCancel, proc, mon, cancelled, stopped>>
             /\ \A k \in Names \ {n} : options'[k] = options[k] /\ proxy'[k] = proxy[k]
             /\ ev'.res = "nil" => UNCHANGED <<options, proxy>>]_vars

\* C14 witness: SetOptions took effect while a restart delay is pending
C14_Witness ==
    /\ ev = Ev("SetOptions", "a", "ok", "")
    /\ \E m \in ChildIds : mon["a"][m] = "sleep" /\ restartCancel["a"] = m
    /\ restarts["a"] = 1
    /\ Deref(options["a"]).Port = Port2

\* ---------------------------------------------------------------------
\* Instance.UnmarshalJSON, lines 495-534 (takes no lock)
\* ---------------------------------------------------------------------
\* lines 513-519: only a negative value is replaced
UnmarshalMaxRestarts(p) ==
    IF p = NilPtr THEN p
    ELSE IF Deref(p) < 0 THEN Ptr(0)
    ELSE p

\* lines 521-527
UnmarshalRestartDelay(p) ==
    IF p = NilPtr THEN p
    ELSE IF Deref(p) < 0 THEN Ptr(5)
    ELSE p

\* d is the decoded snapshot: its options (nil when the key is absent) and
\* its running flag.  An Instance is rehydrated before it is first started.
UnmarshalJSON(n, d) ==
    /\ n \in instances
    /\ cmd[n] = 0
    /\ Running' = Upd(Running, n, d.Running)
    /\ options' = IF d.Options = NilPtr THEN options
                  ELSE Upd(options, n,
                           Ptr(Opt(Deref(d.Options).AutoRestart,
                                   UnmarshalMaxRestarts(Deref(d.Options).MaxRestarts),
                                   UnmarshalRestartDelay(Deref(d.Options).RestartDelay),
                                   Deref(d.Options).Port)))
    /\ ev' = Ev("UnmarshalJSON", n, "ok", "")
    /\ UNCHANGED <<instances, logFile, cmd, restarts, proxy, restartCancel,
                   proc, mon, cancelled, stopped, mu>>

\* ---------------------------------------------------------------------
\* Option values: creation, rehydration and SetOptions with any integers
\* ---------------------------------------------------------------------
\* integers around the limits 0, 100 of max_restarts and 1, 300 of the delay
RawMaxRestarts == {0 - 1, 0, 100, 101}
RawRestartDelay == {0 - 1, 0, 1, 300, 301}

RawInputs ==
    { Ptr(Opt(a, mx, d, Port1)) :
        a \in {NilPtr, Ptr(TRUE)},
        mx \in {NilPtr} \cup {Ptr(v) : v \in RawMaxRestarts},
        d \in {NilPtr} \cup {Ptr(v) : v \in RawRestartDelay} }

Snapshots == [Options : RawInputs \cup {NilPtr}, Running : BOOLEAN]

InitOptions ==
    /\ instances = {"a"}
    /\ \E o \in RawInputs :
          InitInstance([n \in Names |-> NewInstanceOptions(o)])

NextOptions ==
    \/ \E n \in Names, o \in RawInputs \cup {NilPtr} : SetOptions(n, o)
    \/ \E n \in Names, d \in Snapshots : UnmarshalJSON(n, d)
    \/ \E n \in Names : GetProxy(n)

SpecOptions == InitOptions /\ [][NextOptions]_vars

\* stored restart values within their ranges
OptionsInRange(o) ==
    /\ o.MaxRestarts # NilPtr
       => Deref(o.MaxRestarts) >= 0 /\ Deref(o.MaxRestarts) <= 100
    /\ o.RestartDelay # NilPtr
       => Deref(o.RestartDelay) >= 1 /\ Deref(o.RestartDelay) <= 300

\* C13: after SetOptions(new), for any integers in new, the stored
\* max_restarts lies in [0, 100] and the stored restart delay in [1, 300].
C13_SetOptionsClamps ==
    [][\A n \in Names :
          (ev'.op = "SetOptions" /\ ev'.name = n /\ ev'.res = "ok")
          => OptionsInRange(Deref(options'[n]))]_vars

\* C15: in every reachable state in which Running is false, the child
\* process handle (i.cmd), the log file (i.logFile) and the pending-restart
\* handle (i.restartCancel) are not all three non-nil.
C15_StoppedHoldsNotAllThree ==
    \A n \in Names :
       ~Running[n] => ~(cmd[n] # 0 /\ logFile[n] # 0 /\ restartCancel[n] # 0)

\* the handle stored is that of a timer armed and not yet through with its
\* restart attempt
HandleOfUnfinishedTimer(n) ==
    restartCancel[n] # 0 => mon[n][restartCancel[n]] \in {"sleep", "clear"}

\* the timer task of m clears the handle at line 435 in this step
ClearsOnFire(n, m) == mon[n][m] = "clear" /\ mon'[n][m] = "done"

\* C16: the restart-cancel handle is non-nil only from the arming of a timer
\* until that timer has fired and its restart attempt has finished (Start
\* succeeded or failed); it is nil after any Stop; and the clearing on fire
\* never removes the handle of a different, later-armed timer.
C16_HandleLifetime ==
    /\ [](\A n \in Names :
             /\ HandleOfUnfinishedTimer(n)
             /\ (ev.op = "Stop" /\ ev.name = n) => restartCancel[n] = 0)
    /\ [][\A n \in Names, m \in ChildIds :
             (ClearsOnFire(n, m) /\ restartCancel[n] \notin {0, m})
             => restartCancel'[n] = restartCancel[n]]_vars

\* restart-delay timers waiting in the select of line 419 whose context has
\* not been cancelled
PendingTimers(n) == {m \in ChildIds : mon[n][m] = "sleep" /\ m \notin cancelled[n]}

\* C18: an Instance has at most one restart-delay timer pending (arming one
\* cancels the earlier one), and a pending timer is the one the stored
\* cancel handle cancels, so that one Stop reaches every pending restart.
C18_OnePendingTimerReachable ==
    \A n \in Names :
       /\ Cardinality(PendingTimers(n)) <= 1
       /\ \A m \in PendingTimers(n) : restartCancel[n] = m

\* ---------------------------------------------------------------------
\* Lock protocol: taking i.mu is a step of its own, so that tasks wait for
\* one another and a critical section can be seen from outside
\* ---------------------------------------------------------------------
\* tasks that may call i.mu.Lock() now: operator calls (GetProxy, which like
\* SetOptions returns at once under a deferred Unlock, is left out),
\* the monitor whose cmd.Wait() has returned, the timer task whose delay has
\* elapsed (inside i.Start()), the timer task after its restart
Callers(n) ==
    {H(op, 0) : op \in {"Start", "Stop", "SetOptions"}}
    \cup {H("monitor", m) : m \in {c \in ChildIds : mon[n][c] = "wait" /\ WaitErrors(n, c) # {}}}
    \cup {H("restart", m) : m \in {c \in ChildIds : mon[n][c] = "sleep"}}
    \cup {H("clear", m) : m \in {c \in ChildIds : mon[n][c] = "clear"}}

\* i.mu.Lock() returns for task h
Acquire(n, h) ==
    /\ n \in instances
    /\ mu[n] = Free
    /\ h \in Callers(n)
    /\ mu' = Upd(mu, n, h)
    /\ UNCHANGED <<instances, options, Running, logFile, cmd, restarts, proxy,
                   restartCancel, proc, mon, cancelled, stopped, ev>>

LockSetInputs == { Ptr(Opt(Ptr(TRUE), Ptr(1), Ptr(1), Port2)) }

\* the task holding i.mu runs its critical section up to the Unlock
Release(n) ==
    \/ \E fail \in {"none", "log"} :
          mu[n] = H("Start", 0) /\ Start(n, fail) /\ PolicyBudget
    \/ \E timeout \in BOOLEAN : mu[n] = H("Stop", 0) /\ Stop(n, timeout)
    \/ \E o \in LockSetInputs : mu[n] = H("SetOptions", 0) /\ SetOptions(n, o)
    \/ \E m \in ChildIds, err \in BOOLEAN :
          mu[n] = H("monitor", m) /\ MonitorExit(n, m, err)
    \/ \E m \in ChildIds, fail \in {"none", "log"} :
          mu[n] = H("restart", m) /\ RestartStart(n, m, fail) /\ PolicyBudget
    \/ \E m \in ChildIds : mu[n] = H("clear", m) /\ RestartClear(n, m)

\* steps that take no lock; a timer task inside i.Start() has left the select
Lockless(n) ==
    \/ \E c \in ChildIds, clean \in BOOLEAN : ChildExit(n, c, clean)
    \/ \E m \in ChildIds : mu[n] # H("restart", m) /\ TimerCancelled(n, m)

NextLock ==
    \/ \E n \in Names : \E h \in Callers(n) : Acquire(n, h)
    \/ \E n \in Names : Release(n)
    \/ \E n \in Names : Lockless(n)

\* a goroutine that holds the lock keeps running
SpecLock == Init /\ [][NextLock]_vars /\ \A n \in Names : WF_vars(Release(n))

InitRestore ==
    /\ instances = {"a"}
    /\ InitInstance([n \in Names |-> NilPtr])

RestoreSnapshots ==
    [Options : {NilPtr, Ptr(Opt(Ptr(TRUE), Ptr(1), Ptr(1), Port1))},
     Running : BOOLEAN]

NextRestore ==
    \/ \E n \in Names, d \in RestoreSnapshots : UnmarshalJSON(n, d)
    \/ NextLock

SpecRestore == InitRestore /\ [][NextRestore]_vars

\* the fields i.mu protects
ProtectedFields(n) ==
    <<Running[n], options[n], restarts[n], logFile[n], proxy[n], restartCancel[n]>>

\* C17: every write of running, options, restarts, the log-file handle, the
\* proxy and the restart-cancel handle is made by a task that holds the
\* Instance's lock exclusively: a step that changes one of them starts with
\* the lock held and is the holder's step up to its Unlock.
C17_WritesUnderLock ==
    [][\A n \in Names :
          ProtectedFields(n)' # ProtectedFields(n)
          => mu[n] # Free /\ mu'[n] = Free]_vars

\* C20: Running true implies that the Instance holds the handle (and cancel
\* function) of a child that Start spawned, also after rehydration from a
\* snapshot whose running flag was true; so Stop never finds a nil cancel
\* function and Start answers AlreadyRunning only when a child was spawned.
C20_RunningHasChild ==
    \A n \in Names :
       /\ Running[n] => cmd[n] \in ChildIds /\ cmd[n] \in Spawned(n)
       /\ (ev.op = "Stop" /\ ev.name = n) => ev.res # "panic"
       /\ (ev.op = "Start" /\ ev.name = n /\ ev.res = "AlreadyRunning")
          => Spawned(n) # {}

====
